---- MODULE Spec2Model ----
(***************************************************************************)
(* The planning-enhancement installer and uninstaller as state machines    *)
(* over one filesystem: the bundled commands/ directory (source), the      *)
(* per-user ~/.claude/commands directory (dirExists, dir), and one run of  *)
(* either script walking its manifest.  The process runs unprivileged, so  *)
(* a read-only file cannot be opened for writing.                          *)
(***************************************************************************)
EXTENDS Integers, Sequences, FiniteSets, TLC

\* Largest number of deviations from the nominal environment in a behaviour:
\* manifest names whose initial source/target is unusual, plus injected
\* I/O faults (a copy or an unlink that raises for a transient reason).
MaxAnomalies == 1

\* The manifest, identical in both scripts.
planning_commands ==
    << "requirements.md", "plan.md", "validate-implementation.md", "adr.md",
       "feature-status.md", "retrospective.md", "expand-tests.md",
       "expand-api.md", "expand-components.md", "expand-models.md" >>

ManifestNames == { planning_commands[k] : k \in 1..Len(planning_commands) }

\* Files of the target directory that the manifest does not name.
OtherNames == { "custom.md" }

AllNames == ManifestNames \cup OtherNames

\* A path's state: absent, or a regular file with content and a mode
\* (ro: no write permission for the owner).
NoFile == [exists |-> FALSE, content |-> <<"none", "">>, ro |-> FALSE]

File(c, r) == [exists |-> TRUE, content |-> c, ro |-> r]

Bundled(n) == <<"bundled", n>>
Old(n)     == <<"old", n>>
Partial(n) == <<"partial", n>>

VARIABLES
    script,          \* which entry point runs: "install" or "uninstall"
    pc,              \* position of the run
    dirExists,       \* ~/.claude/commands exists
    dir,             \* AllNames -> file state inside ~/.claude/commands
    source,          \* ManifestNames -> file state inside commands/
    i,               \* index of the manifest loop
    installed_count, \* install_commands' counter
    removed_count,   \* uninstall_commands' counter
    all_installed,   \* verify_installation's result
    all_removed,     \* verify_uninstallation's result
    response,        \* main's response to the uninstall confirmation
    cleanup_response,\* cleanup_session_files' response
    out,             \* what was printed, as a sequence of events
    exited,          \* the process has ended
    exit_code,       \* its exit status
    visited,         \* control states the run went through
    raised,          \* an exception escaped a function of the run
    copied,          \* names whose copy2 returned normally in this run
    dir0,            \* dir at the start of the run
    dirExists0,      \* dirExists at the start of the run
    source0,         \* source at the start of the run
    anomalies,       \* deviations used so far (see MaxAnomalies)
    faulted,         \* a transient I/O fault was injected
    run,             \* 1 for the first run, 2 for a run repeated after it
    first            \* what the first run reported and left behind

vars == << script, pc, dirExists, dir, source, i, installed_count,
           removed_count, all_installed, all_removed, response,
           cleanup_response, out, exited, exit_code, visited, raised, copied, dir0, dirExists0, source0,
           anomalies, faulted, run, first >>


\* What input() returns: a line without its newline, as a sequence of
\* characters.  NoInput stands for a prompt that was not reached.
NoInput == << "<none>" >>

Responses ==
    { <<>>, <<"y">>, <<"Y">>, <<"y", "e", "s">>, <<"Y", "E", "S">>,
      <<"Y", "e", "S">>, <<"n">>, <<"N">>, <<"n", "o">>, <<"y", "e">>,
      <<" ", "y">>, <<"y", "e", "s", "s">> }

\* str.lower() on the characters the responses use.
LowerChar(c) ==
    CASE c = "Y" -> "y"
      [] c = "E" -> "e"
      [] c = "S" -> "s"
      [] c = "N" -> "n"
      [] c = "O" -> "o"
      [] OTHER   -> c

Lower(r) == [k \in 1..Len(r) |-> LowerChar(r[k])]

\* A missing .lower(): the response is compared as typed.
ConfirmedAsTyped(r) == r \in { <<"y">>, <<"y", "e", "s">> }

\* input(...).lower() in ['y', 'yes']
Confirmed(r) == Lower(r) \in { <<"y">>, <<"y", "e", "s">> }

\* commands_dir / command_file: Path.exists() of a path under a directory
\* that does not exist is False.
PathExists(de, d, n) == de /\ d[n].exists

\* The installer's get_claude_commands_dir: creates the directory when it is
\* missing; mkdir either succeeds or raises (the exception is not caught).
ResolveInstall(de) ==
    IF de THEN { [ok |-> TRUE, dirExists |-> TRUE] }
    ELSE { [ok |-> TRUE, dirExists |-> TRUE], [ok |-> FALSE, dirExists |-> FALSE] }

\* The uninstaller's get_claude_commands_dir: computes the path, creates nothing.
ResolveUninstall(de) == de

\* shutil.copy2(src, dst): open src, open dst for writing (PermissionError on
\* a read-only dst, which is left as it was), write the bytes, then copystat
\* (the mode of src becomes the mode of dst).  With canFault, each stage may
\* also raise for a transient reason: before dst is opened (dst unchanged),
\* while writing (dst partly written), in copystat (bytes written, mode not).
Copy2(n, src, dst, canFault) ==
    IF dst.exists /\ dst.ro
    THEN { [ok |-> FALSE, fault |-> FALSE, file |-> dst] }
    ELSE { [ok |-> TRUE, fault |-> FALSE, file |-> File(src.content, src.ro)] }
         \cup
         ( IF canFault
           THEN { [ok |-> FALSE, fault |-> TRUE, file |-> dst],
                  [ok |-> FALSE, fault |-> TRUE, file |-> File(Partial(n), FALSE)],
                  [ok |-> FALSE, fault |-> TRUE, file |-> File(src.content, FALSE)] }
           ELSE {} )

\* Path.unlink(): removes the file, or raises and leaves it.
Unlink(dst, canFault) ==
    { [ok |-> TRUE, fault |-> FALSE, file |-> NoFile] }
    \cup
    ( IF canFault THEN { [ok |-> FALSE, fault |-> TRUE, file |-> dst] } ELSE {} )

\* The verification loops: every manifest path exists / no manifest path exists.
AllExist(de, d) == \A k \in 1..Len(planning_commands) : PathExists(de, d, planning_commands[k])

NoneExist(de, d) == \A k \in 1..Len(planning_commands) : ~PathExists(de, d, planning_commands[k])

Say(o, kind, n) == Append(o, <<kind, n>>)

Printed(kind) == \E k \in 1..Len(out) : out[k][1] = kind

----
\* Initial states: a nominal environment (all ten sources present and
\* writable, or no commands/ directory at all; target directory missing, empty
\* of manifest files, or holding an earlier install) in which at most
\* MaxAnomalies manifest names deviate.
SrcFile(n, k) ==
    CASE k = "missing" -> NoFile
      [] k = "rw"      -> File(Bundled(n), FALSE)
      [] k = "ro"      -> File(Bundled(n), TRUE)

TgtFile(n, k) ==
    CASE k = "absent"  -> NoFile
      [] k = "old"     -> File(Old(n), FALSE)
      [] k = "oldro"   -> File(Old(n), TRUE)
      [] k = "bundled" -> File(Bundled(n), FALSE)

Init ==
    /\ script \in {"install", "uninstall"}
    /\ dirExists \in BOOLEAN
    /\ \E srcdir \in BOOLEAN, installed \in BOOLEAN :
       \E odd \in { S \in SUBSET ManifestNames : Cardinality(S) <= MaxAnomalies } :
       \E so \in [odd -> {"missing", "rw", "ro"}],
          to \in [odd -> {"absent", "old", "oldro", "bundled"}] :
          LET baseSrc == IF srcdir THEN "rw" ELSE "missing"
              baseTgt == IF installed THEN "bundled" ELSE "absent"
          IN  /\ installed => dirExists
              /\ script = "uninstall" => srcdir
              /\ \A n \in odd :
                    /\ <<so[n], to[n]>> # <<baseSrc, baseTgt>>
                    /\ ~srcdir => so[n] = "missing"
                    /\ ~dirExists => to[n] = "absent"
                    /\ script = "uninstall" => so[n] = "rw"
              /\ source = [n \in ManifestNames |->
                             SrcFile(n, IF n \in odd THEN so[n] ELSE baseSrc)]
              /\ dir = [n \in AllNames |->
                          IF n \in ManifestNames
                          THEN TgtFile(n, IF n \in odd THEN to[n] ELSE baseTgt)
                          ELSE IF dirExists THEN File(<<"user", n>>, FALSE) ELSE NoFile]
              /\ anomalies = Cardinality(odd)
    /\ pc = "main"
    /\ i = 0
    /\ installed_count = 0
    /\ removed_count = 0
    /\ all_installed = FALSE
    /\ all_removed = FALSE
    /\ response = NoInput
    /\ cleanup_response = NoInput
    /\ out = <<>>
    /\ exited = FALSE
    /\ exit_code = 0
    /\ visited = <<"START">>
    /\ raised = FALSE
    /\ copied = {}
    /\ dir0 = dir
    /\ dirExists0 = dirExists
    /\ source0 = source
    /\ faulted = FALSE
    /\ run = 1
    /\ first = [installed_count |-> 0, all_installed |-> FALSE, exit_code |-> 0,
                dirExists |-> FALSE, dir |-> dir]

----
\* Variables a single run never changes.
frame == << script, source, dir0, dirExists0, source0, run, first >>

\* sys.exit(code), or main returning (code 0).
Exit(code) == exited' = TRUE /\ exit_code' = code /\ pc' = "exited"

----
\* The installer (install-planning-enhancement.py).

\* main calls install_commands, which resolves the target directory first.
InstallBegin ==
    /\ script = "install" /\ pc = "main" /\ ~exited
    /\ \E r \in ResolveInstall(dirExists) :
          /\ dirExists' = r.dirExists
          /\ IF r.ok
             THEN /\ pc' = "copy" /\ i' = 1 /\ installed_count' = 0
                  /\ out' = Say(out, "Installing", "")
                  /\ UNCHANGED << raised, faulted >>
             ELSE /\ pc' = "except" /\ raised' = TRUE /\ faulted' = TRUE
                  /\ UNCHANGED << i, installed_count, out >>
    /\ UNCHANGED << frame, dir, removed_count, all_installed, all_removed, response,
                    cleanup_response, exited, exit_code, visited, copied, anomalies >>

\* The loop body without its try/except: a failed copy propagates to main.
InstallOneUncaught ==
    /\ script = "install" /\ pc = "copy" /\ i <= Len(planning_commands)
    /\ LET command_file == planning_commands[i]
           src == source[command_file]
           dst == dir[command_file]
       IN  IF src.exists
           THEN \E o \in Copy2(command_file, src, dst, anomalies < MaxAnomalies) :
                   /\ dir' = [dir EXCEPT ![command_file] = o.file]
                   /\ anomalies' = IF o.fault THEN anomalies + 1 ELSE anomalies
                   /\ faulted' = (faulted \/ o.fault)
                   /\ IF o.ok
                      THEN /\ out' = Say(out, "Installed", command_file)
                           /\ installed_count' = installed_count + 1
                           /\ copied' = copied \cup {command_file}
                           /\ i' = i + 1
                           /\ UNCHANGED << pc, raised >>
                      ELSE /\ pc' = "except" /\ raised' = TRUE
                           /\ UNCHANGED << out, installed_count, copied, i >>
           ELSE /\ out' = Say(out, "Source file not found", command_file)
                /\ i' = i + 1
                /\ UNCHANGED << dir, anomalies, faulted, installed_count, copied, pc,
                                raised >>
    /\ UNCHANGED << frame, dirExists, removed_count, all_installed, all_removed,
                    response, cleanup_response, exited, exit_code, visited >>

\* One iteration of install_commands' loop.
InstallOne ==
    /\ script = "install" /\ pc = "copy" /\ i <= Len(planning_commands)
    /\ LET command_file == planning_commands[i]
           src == source[command_file]
           dst == dir[command_file]
       IN  IF src.exists
           THEN \E o \in Copy2(command_file, src, dst, anomalies < MaxAnomalies) :
                   /\ dir' = [dir EXCEPT ![command_file] = o.file]
                   /\ anomalies' = IF o.fault THEN anomalies + 1 ELSE anomalies
                   /\ faulted' = (faulted \/ o.fault)
                   /\ IF o.ok
                      THEN /\ out' = Say(out, "Installed", command_file)
                           /\ installed_count' = installed_count + 1
                           /\ copied' = copied \cup {command_file}
                      ELSE /\ out' = Say(out, "Failed to install", command_file)
                           /\ UNCHANGED << installed_count, copied >>
           ELSE /\ out' = Say(out, "Source file not found", command_file)
                /\ UNCHANGED << dir, anomalies, faulted, installed_count, copied >>
    /\ i' = i + 1
    /\ UNCHANGED << frame, pc, dirExists, removed_count, all_installed, all_removed,
                    response, cleanup_response, exited, exit_code, visited, raised >>

\* install_commands returns installed_count; main exits 1 when it is 0.
InstallReturn ==
    /\ script = "install" /\ pc = "copy" /\ i > Len(planning_commands)
    /\ IF installed_count = 0
       THEN /\ out' = Say(out, "No commands were installed", "")
            /\ Exit(1)
       ELSE /\ pc' = "verify"
            /\ UNCHANGED << out, exited, exit_code >>
    /\ UNCHANGED << frame, dirExists, dir, i, installed_count, removed_count,
                    all_installed, all_removed, response, cleanup_response, visited,
                    raised, copied, anomalies, faulted >>

\* verify_installation: resolves the directory again, then checks existence.
VerifyInstallation ==
    /\ script = "install" /\ pc = "verify"
    /\ \E r \in ResolveInstall(dirExists) :
          /\ dirExists' = r.dirExists
          /\ IF r.ok
             THEN /\ all_installed' = AllExist(r.dirExists, dir)
                  /\ pc' = "verified"
                  /\ out' = Say(out, "Verifying installation", "")
                  /\ UNCHANGED << raised, faulted >>
             ELSE /\ pc' = "except" /\ raised' = TRUE /\ faulted' = TRUE
                  /\ UNCHANGED << all_installed, out >>
    /\ UNCHANGED << frame, dir, i, installed_count, removed_count, all_removed,
                    response, cleanup_response, exited, exit_code, visited, copied,
                    anomalies >>

\* main without the exit on a failed verification.
InstallFinishUngated ==
    /\ script = "install" /\ pc = "verified"
    /\ out' = Say(Say(out, "Successfully installed", ""), "usage guide", "")
    /\ Exit(0)
    /\ UNCHANGED << frame, dirExists, dir, i, installed_count, removed_count,
                    all_installed, all_removed, response, cleanup_response, visited,
                    raised, copied, anomalies, faulted >>

\* main after verification: the usage guide, or exit 1.
InstallFinish ==
    /\ script = "install" /\ pc = "verified"
    /\ IF all_installed
       THEN /\ out' = Say(Say(out, "Successfully installed", ""), "usage guide", "")
            /\ Exit(0)
       ELSE /\ out' = Say(out, "Installation completed with some issues", "")
            /\ Exit(1)
    /\ UNCHANGED << frame, dirExists, dir, i, installed_count, removed_count,
                    all_installed, all_removed, response, cleanup_response, visited,
                    raised, copied, anomalies, faulted >>

\* main's except Exception handler.
InstallExcept ==
    /\ script = "install" /\ pc = "except"
    /\ out' = Say(out, "Installation failed", "")
    /\ Exit(1)
    /\ UNCHANGED << frame, dirExists, dir, i, installed_count, removed_count,
                    all_installed, all_removed, response, cleanup_response, visited,
                    raised, copied, anomalies, faulted >>

----
\* The uninstaller (uninstall-planning-enhancement.py).

\* main's confirmation prompt.  input() is outside the try block: at end of
\* input its EOFError is uncaught and the interpreter exits with status 1.
Confirm ==
    /\ script = "uninstall" /\ pc = "main" /\ ~exited
    /\ \/ \E r \in Responses :
             /\ response' = r
             /\ IF Confirmed(r)
                THEN /\ pc' = "uninstall"
                     /\ visited' = visited \o <<"CONFIRM", "PROCEED">>
                     /\ UNCHANGED << out, exited, exit_code >>
                ELSE /\ out' = Say(out, "Uninstallation cancelled", "")
                     /\ visited' = visited \o <<"CONFIRM", "ABORT">>
                     /\ Exit(0)
             /\ UNCHANGED raised
       \/ /\ raised' = TRUE
          /\ visited' = visited \o <<"CONFIRM", "FAILED">>
          /\ Exit(1)
          /\ UNCHANGED << response, out >>
    /\ UNCHANGED << frame, dirExists, dir, i, installed_count, removed_count,
                    all_installed, all_removed, cleanup_response, copied, anomalies,
                    faulted >>

\* uninstall_commands with the installer's resolver, which creates the directory.
UninstallBeginCreating ==
    /\ script = "uninstall" /\ pc = "uninstall"
    /\ visited' = Append(visited, "REMOVE_EACH")
    /\ dirExists' = TRUE
    /\ out' = Say(out, "Uninstalling", "")
    /\ removed_count' = 0
    /\ i' = 1
    /\ pc' = "remove"
    /\ UNCHANGED << frame, dir, installed_count, all_installed, all_removed, response,
                    cleanup_response, exited, exit_code, raised, copied, anomalies,
                    faulted >>

\* uninstall_commands up to its loop: nothing to do without the directory.
UninstallBegin ==
    /\ script = "uninstall" /\ pc = "uninstall"
    /\ visited' = Append(visited, "REMOVE_EACH")
    /\ IF ~ResolveUninstall(dirExists)
       THEN /\ out' = Say(out, "Nothing to uninstall", "")
            /\ removed_count' = 0
            /\ pc' = "verify"
            /\ UNCHANGED i
       ELSE /\ out' = Say(out, "Uninstalling", "")
            /\ removed_count' = 0
            /\ i' = 1
            /\ pc' = "remove"
    /\ UNCHANGED << frame, dirExists, dir, installed_count, all_installed, all_removed,
                    response, cleanup_response, exited, exit_code, raised, copied,
                    anomalies, faulted >>

\* A loop body that empties the directory instead of unlinking one path.
RemoveOneEverything ==
    /\ script = "uninstall" /\ pc = "remove" /\ i <= Len(planning_commands)
    /\ dir' = [n \in AllNames |-> NoFile]
    /\ out' = Say(out, "Removed", planning_commands[i])
    /\ removed_count' = removed_count + 1
    /\ i' = i + 1
    /\ UNCHANGED << frame, pc, dirExists, installed_count, all_installed, all_removed,
                    response, cleanup_response, exited, exit_code, visited, raised,
                    copied, anomalies, faulted >>

\* One iteration of uninstall_commands' loop.
RemoveOne ==
    /\ script = "uninstall" /\ pc = "remove" /\ i <= Len(planning_commands)
    /\ LET command_file == planning_commands[i]
       IN  IF PathExists(dirExists, dir, command_file)
           THEN \E o \in Unlink(dir[command_file], anomalies < MaxAnomalies) :
                   /\ dir' = [dir EXCEPT ![command_file] = o.file]
                   /\ anomalies' = IF o.fault THEN anomalies + 1 ELSE anomalies
                   /\ faulted' = (faulted \/ o.fault)
                   /\ IF o.ok
                      THEN /\ out' = Say(out, "Removed", command_file)
                           /\ removed_count' = removed_count + 1
                      ELSE /\ out' = Say(out, "Failed to remove", command_file)
                           /\ UNCHANGED removed_count
           ELSE /\ out' = Say(out, "not found", command_file)
                /\ UNCHANGED << dir, anomalies, faulted, removed_count >>
    /\ i' = i + 1
    /\ UNCHANGED << frame, pc, dirExists, installed_count, all_installed, all_removed,
                    response, cleanup_response, exited, exit_code, visited, raised,
                    copied >>

\* uninstall_commands returns removed_count.
UninstallReturn ==
    /\ script = "uninstall" /\ pc = "remove" /\ i > Len(planning_commands)
    /\ pc' = "verify"
    /\ UNCHANGED << frame, dirExists, dir, i, installed_count, removed_count,
                    all_installed, all_removed, response, cleanup_response, out,
                    exited, exit_code, visited, raised, copied, anomalies, faulted >>

\* A verification that gates the exit status, as the installer's does.
VerifyUninstallationGated ==
    /\ script = "uninstall" /\ pc = "verify"
    /\ all_removed' = NoneExist(ResolveUninstall(dirExists), dir)
    /\ visited' = Append(visited, "VERIFY")
    /\ IF all_removed'
       THEN /\ out' = Say(out, "Successfully removed", "")
            /\ pc' = "cleanup"
            /\ UNCHANGED << exited, exit_code >>
       ELSE /\ out' = Say(out, "Uninstallation completed with some issues", "")
            /\ Exit(1)
    /\ UNCHANGED << frame, dirExists, dir, i, installed_count, removed_count,
                    all_installed, response, cleanup_response, raised, copied,
                    anomalies, faulted >>

\* verify_uninstallation, and main's success or warning line.
VerifyUninstallation ==
    /\ script = "uninstall" /\ pc = "verify"
    /\ all_removed' = NoneExist(ResolveUninstall(dirExists), dir)
    /\ out' = IF all_removed'
              THEN Say(out, "Successfully removed", "")
              ELSE Say(out, "Uninstallation completed with some issues", "")
    /\ visited' = Append(visited, "VERIFY")
    /\ pc' = "cleanup"
    /\ UNCHANGED << frame, dirExists, dir, i, installed_count, removed_count,
                    all_installed, response, cleanup_response, exited, exit_code,
                    raised, copied, anomalies, faulted >>

\* A prompt that asks again until the answer is y or yes.
CleanupSessionFilesAskingAgain ==
    /\ script = "uninstall" /\ pc = "cleanup"
    /\ \E r \in Responses :
          /\ cleanup_response' = r
          /\ IF Confirmed(r)
             THEN /\ out' = Say(out, "Session File Cleanup Guidance", "")
                  /\ visited' = visited \o <<"OFFER_CLEANUP_GUIDANCE", "PRINT_GUIDANCE">>
                  /\ pc' = "complete"
             ELSE /\ out' = out
                  /\ visited' = Append(visited, "OFFER_CLEANUP_GUIDANCE")
                  /\ pc' = "cleanup"
    /\ UNCHANGED << frame, dirExists, dir, i, installed_count, removed_count,
                    all_installed, all_removed, response, exited, exit_code, raised,
                    copied, anomalies, faulted >>

\* cleanup_session_files: the second prompt, inside main's try block.
CleanupSessionFiles ==
    /\ script = "uninstall" /\ pc = "cleanup"
    /\ \/ \E r \in Responses :
             /\ cleanup_response' = r
             /\ IF Confirmed(r)
                THEN /\ out' = Say(out, "Session File Cleanup Guidance", "")
                     /\ visited' = visited \o <<"OFFER_CLEANUP_GUIDANCE", "PRINT_GUIDANCE">>
                ELSE /\ out' = out
                     /\ visited' = visited \o <<"OFFER_CLEANUP_GUIDANCE", "SKIP">>
             /\ pc' = "complete"
             /\ UNCHANGED raised
       \/ /\ raised' = TRUE
          /\ visited' = Append(visited, "OFFER_CLEANUP_GUIDANCE")
          /\ pc' = "except"
          /\ UNCHANGED << cleanup_response, out >>
    /\ UNCHANGED << frame, dirExists, dir, i, installed_count, removed_count,
                    all_installed, all_removed, response, exited, exit_code, copied,
                    anomalies, faulted >>

\* main's closing banner; the script ends with status 0.
UninstallFinish ==
    /\ script = "uninstall" /\ pc = "complete"
    /\ out' = Say(out, "Uninstallation Complete", "")
    /\ visited' = Append(visited, "END")
    /\ Exit(0)
    /\ UNCHANGED << frame, dirExists, dir, i, installed_count, removed_count,
                    all_installed, all_removed, response, cleanup_response, raised,
                    copied, anomalies, faulted >>

\* main's except Exception handler.
UninstallExcept ==
    /\ script = "uninstall" /\ pc = "except"
    /\ out' = Say(out, "Uninstallation failed", "")
    /\ visited' = Append(visited, "FAILED")
    /\ Exit(1)
    /\ UNCHANGED << frame, dirExists, dir, i, installed_count, removed_count,
                    all_installed, all_removed, response, cleanup_response, raised,
                    copied, anomalies, faulted >>

----
\* The installer run again on what its first run left (sources untouched).
Rerun ==
    /\ script = "install" /\ exited /\ run = 1
    /\ first' = [installed_count |-> installed_count, all_installed |-> all_installed,
                 exit_code |-> exit_code, dirExists |-> dirExists, dir |-> dir]
    /\ run' = 2
    /\ pc' = "main" /\ i' = 0 /\ installed_count' = 0 /\ all_installed' = FALSE
    /\ out' = <<>> /\ exited' = FALSE /\ exit_code' = 0 /\ raised' = FALSE
    /\ copied' = {}
    /\ dir0' = dir /\ dirExists0' = dirExists
    /\ UNCHANGED << script, source, source0, dirExists, dir, removed_count, all_removed,
                    response, cleanup_response, visited, anomalies, faulted >>

Next ==
    \/ InstallBegin \/ InstallOne \/ InstallReturn \/ VerifyInstallation
    \/ InstallFinish \/ InstallExcept
    \/ Confirm \/ UninstallBegin \/ RemoveOne \/ UninstallReturn
    \/ VerifyUninstallation \/ CleanupSessionFiles \/ UninstallFinish
    \/ UninstallExcept

\* One run of either script.
Spec == Init /\ [][Next]_vars

\* The installer run twice in a row.
SpecTwice == Init /\ [][Next \/ Rerun]_vars

----
\* Helpers of the properties below.
IsFileLine(e) == e[2] # ""

\* The per-file report lines printed so far, in order.
FileLines == SelectSeq(out, IsFileLine)

Visited(st) == \E k \in 1..Len(visited) : visited[k] = st

IsPrefix(s, t) == Len(s) <= Len(t) /\ \A k \in 1..Len(s) : s[k] = t[k]

NoRepeat(s) == \A j, k \in 1..Len(s) : j # k => s[j] # s[k]

Last(s) == s[Len(s)]

YesTexts == { <<"y">>, <<"y", "e", "s">> }

----
\* C1: whenever an installer run ends with status 0, each of the 10 manifest
\* names exists in the target directory with the content of its source file
\* (stated here even for runs in which no I/O operation raised for a
\* transient reason).
C1_SuccessfulInstallMatchesSources ==
    (script = "install" /\ exited /\ exit_code = 0 /\ ~faulted) =>
        \A n \in ManifestNames :
            /\ PathExists(dirExists, dir, n)
            /\ source[n].exists
            /\ dir[n].content = source[n].content

----
\* C2: the installer exits 1 when zero files were copied (in particular when
\* all sources are missing), exits 1 without the usage guide when at least one
\* file was copied but some manifest name is absent from the target directory,
\* and prints the usage guide and exits 0 exactly when at least one file was
\* copied and all 10 names are present.
C2_ExitStatus ==
    (script = "install" /\ exited) =>
        LET present == \A n \in ManifestNames : dirExists /\ dir[n].exists
        IN  /\ installed_count = 0 => exit_code = 1
            /\ (\A n \in ManifestNames : ~source[n].exists) =>
                   (installed_count = 0 /\ exit_code = 1)
            /\ (installed_count >= 1 /\ ~present) =>
                   (exit_code = 1 /\ ~Printed("usage guide"))
            /\ (exit_code = 0) <=> (installed_count >= 1 /\ present)
            /\ Printed("usage guide") <=> (exit_code = 0)
            /\ exit_code \in {0, 1}

\* A run that copied some files, failed verification and exited 1.
C2_Witness ==
    /\ script = "install" /\ exited /\ exit_code = 1
    /\ installed_count >= 1
    /\ pc = "exited" /\ ~all_installed /\ Printed("Verifying installation")
    /\ \E n \in ManifestNames : ~dir[n].exists

----
\* What install_commands does per file once the directory is resolved: the
\* first i-1 manifest names have been reported, one line each, in manifest
\* order ("Installed" exactly for the names whose copy succeeded, "Source file
\* not found" exactly for those without a source, "Failed to install" for the
\* rest), the counter equals the number of successful copies, and the function
\* returns only after all 10 names.
C3_LoopContract ==
    (script = "install" /\ pc # "main" /\ ~raised) =>
        /\ Len(FileLines) = i - 1
        /\ \A k \in 1..Len(FileLines) :
              LET n == planning_commands[k]
              IN  /\ FileLines[k][2] = n
                  /\ (FileLines[k][1] = "Installed") <=> (n \in copied)
                  /\ (FileLines[k][1] = "Source file not found") <=> ~source[n].exists
                  /\ FileLines[k][1] \in
                        {"Installed", "Source file not found", "Failed to install"}
        /\ installed_count = Cardinality(copied)
        /\ pc # "copy" => Len(FileLines) = Len(planning_commands)

\* C3 as stated: install_commands never raises past its own boundary; all 10
\* names are processed in manifest order and the returned count is the number
\* of successful copies.
C3_NeverRaises ==
    script = "install" => (~raised /\ pc # "except" /\ C3_LoopContract)

\* C3 as amended: install_commands raises only when creating the missing
\* target directory fails, before any file is processed; otherwise the loop
\* contract holds.
C3_RaisesOnlyOnMkdir ==
    script = "install" =>
        /\ raised => (~dirExists0 /\ ~dirExists /\ copied = {} /\ FileLines = <<>>
                      /\ dir = dir0)
        /\ pc = "except" => raised
        /\ C3_LoopContract

\* A failed copy followed by a successful one, the loop run to its end.
C3_Witness ==
    /\ script = "install" /\ pc = "verify"
    /\ \E j, k \in 1..Len(FileLines) :
          /\ j < k
          /\ FileLines[j][1] = "Failed to install"
          /\ FileLines[k][1] = "Installed"

----
\* C4: with the sources unchanged, the second of two installer runs in a row
\* reports the same success count, verification result and exit status as the
\* first and leaves the same target directory (stated here even for pairs of
\* runs in which no I/O operation raised for a transient reason).
C4_Idempotent ==
    (script = "install" /\ run = 2 /\ exited /\ ~faulted) =>
        /\ installed_count = first.installed_count
        /\ all_installed = first.all_installed
        /\ exit_code = first.exit_code
        /\ dir = first.dir
        /\ dirExists = first.dirExists

----
\* C5: after a confirmed uninstaller run that ends with status 0, none of the
\* 10 manifest names exists in the target directory.
C5_SuccessfulUninstallRemovesAll ==
    (script = "uninstall" /\ exited /\ exit_code = 0 /\ Visited("PROCEED")) =>
        \A n \in ManifestNames : ~(dirExists /\ dir[n].exists)

----
\* C6: a response whose lower-cased text is neither "y" nor "yes" (the empty
\* line included) ends the run at once with status 0, nothing removed, the
\* target directory as it was, verification and cleanup guidance never
\* reached; a response whose lower-cased text is "y" or "yes" proceeds to the
\* removal step.
C6_Confirmation ==
    (script = "uninstall" /\ response # NoInput) =>
        IF Lower(response) \in YesTexts
        THEN /\ IsPrefix(<<"START", "CONFIRM", "PROCEED">>, visited)
             /\ ~Printed("Uninstallation cancelled")
             /\ pc = "uninstall" \/ Visited("REMOVE_EACH")
             /\ pc = "uninstall" => ~exited
        ELSE /\ exited /\ exit_code = 0 /\ pc = "exited"
             /\ visited = <<"START", "CONFIRM", "ABORT">>
             /\ dir = dir0 /\ dirExists = dirExists0
             /\ removed_count = 0 /\ FileLines = <<>>
             /\ out = << <<"Uninstallation cancelled", "">> >>
             /\ cleanup_response = NoInput

\* The empty line (the default) declined an uninstall of installed commands.
C6_Witness ==
    /\ script = "uninstall" /\ response = <<>> /\ exited
    /\ \A n \in ManifestNames : dirExists /\ dir[n].exists

----
\* C7: a confirmed uninstaller run goes from verification to the cleanup
\* offer whatever verification found, prints the success line exactly when all
\* names are gone and the warning line otherwise, and ends with status 0
\* unless an exception occurred.
C7_VerificationDoesNotGate ==
    (script = "uninstall" /\ Visited("VERIFY")) =>
        /\ pc = "cleanup" \/ Visited("OFFER_CLEANUP_GUIDANCE")
        /\ Printed("Successfully removed") <=> all_removed
        /\ Printed("Uninstallation completed with some issues") <=> ~all_removed
        /\ all_removed <=> (\A n \in ManifestNames : ~(dirExists /\ dir[n].exists))
        /\ (exited /\ ~raised) => (exit_code = 0 /\ Last(visited) = "END")
        /\ (exited /\ exit_code # 0) => raised

\* A run that found leftovers, offered the guidance and ended with status 0.
C7_Witness ==
    /\ script = "uninstall" /\ exited /\ exit_code = 0
    /\ Visited("VERIFY") /\ ~all_removed
    /\ Visited("OFFER_CLEANUP_GUIDANCE")
    /\ \E n \in ManifestNames : dir[n].exists

----
\* The uninstaller's paths through its control states.
PathAbort == <<"START", "CONFIRM", "ABORT">>

PathGuidance ==
    <<"START", "CONFIRM", "PROCEED", "REMOVE_EACH", "VERIFY",
      "OFFER_CLEANUP_GUIDANCE", "PRINT_GUIDANCE", "END">>

PathSkip ==
    <<"START", "CONFIRM", "PROCEED", "REMOVE_EACH", "VERIFY",
      "OFFER_CLEANUP_GUIDANCE", "SKIP", "END">>

\* Paths ended by an exception: end of input at either prompt.
PathFailedConfirm == <<"START", "CONFIRM", "FAILED">>

PathFailedOffer ==
    <<"START", "CONFIRM", "PROCEED", "REMOVE_EACH", "VERIFY",
      "OFFER_CLEANUP_GUIDANCE", "FAILED">>

\* C8 as stated: every uninstaller run follows START -> CONFIRM -> (ABORT |
\* PROCEED -> REMOVE_EACH -> VERIFY -> OFFER_CLEANUP_GUIDANCE ->
\* (PRINT_GUIDANCE | SKIP) -> END), enters no state twice, and terminates only
\* in ABORT or END.
C8_StateMachine ==
    script = "uninstall" =>
        /\ \E p \in {PathAbort, PathGuidance, PathSkip} : IsPrefix(visited, p)
        /\ NoRepeat(visited)
        /\ exited <=> Last(visited) \in {"ABORT", "END"}

\* C8 as amended: the same machine with a third terminal state FAILED (exit
\* status 1), entered from CONFIRM or from OFFER_CLEANUP_GUIDANCE when the
\* prompt meets the end of input.
C8_StateMachineWithFailure ==
    script = "uninstall" =>
        /\ \E p \in {PathAbort, PathGuidance, PathSkip, PathFailedConfirm,
                     PathFailedOffer} : IsPrefix(visited, p)
        /\ NoRepeat(visited)
        /\ exited <=> Last(visited) \in {"ABORT", "END", "FAILED"}
        /\ Last(visited) = "FAILED" <=> (exited /\ exit_code = 1)
        /\ Visited("FAILED") => raised
        /\ (raised /\ pc # "except") => exited

\* A complete run through PRINT_GUIDANCE.
C8_Witness ==
    script = "uninstall" /\ exited /\ visited = PathGuidance

----
\* C9: when the target directory does not exist at the start of a confirmed
\* uninstaller run, uninstall_commands does no per-file work and returns 0,
\* and the directory is never created.
C9_MissingDirectory ==
    (script = "uninstall" /\ ~dirExists0) =>
        /\ ~dirExists
        /\ dir = dir0
        /\ removed_count = 0
        /\ i = 0 /\ pc # "remove"
        /\ FileLines = <<>>
        /\ Visited("REMOVE_EACH") => Printed("Nothing to uninstall")
        /\ Visited("VERIFY") => all_removed

\* A confirmed run without a target directory, run to its end.
C9_Witness ==
    /\ script = "uninstall" /\ ~dirExists0 /\ exited
    /\ Visited("PROCEED") /\ Last(visited) = "END"

----
\* C10: neither script changes anything outside the manifest: files of the
\* target directory that the manifest does not name, and the sources, stay as
\* they were at the start of the run; the installer only creates the directory
\* and writes manifest targets that have a source; the uninstaller only
\* deletes manifest targets.
C10_Frame ==
    /\ \A n \in OtherNames : dir[n] = dir0[n]
    /\ source = source0
    /\ script = "install" =>
          /\ dirExists0 => dirExists
          /\ \A n \in ManifestNames :
                /\ dir0[n].exists => dir[n].exists
                /\ dir[n] # dir0[n] => (source[n].exists /\ dirExists)
    /\ script = "uninstall" =>
          /\ dirExists = dirExists0
          /\ \A n \in ManifestNames : dir[n] = dir0[n] \/ dir[n] = NoFile

\* A finished install over an existing directory that holds another file.
C10_Witness ==
    /\ script = "install" /\ exited /\ exit_code = 0
    /\ \E n \in OtherNames : dir[n].exists
    /\ \E n \in ManifestNames : dir[n] # dir0[n]

====
